---- MODULE Spec2Model ----
(***************************************************************************)
(* Swarm orchestration: one SwarmExecution with its SwarmTasks, the child  *)
(* Tasks, the worker pool and the event channel, driven by the planner's   *)
(* execute_plan and by the SwarmManager handlers.  Every handler is cut at *)
(* its store accesses (the .await points), so that two handlers of the     *)
(* same execution interleave the way two requests on the shared pool do.   *)
(***************************************************************************)
EXTENDS Integers, Sequences, FiniteSets, Bags, TLC

\* ---------------------------------------------------------------- bounds
\* Largest number of SwarmTask rows of the execution.
MaxSubtasks == 6
\* Largest number of manager operations invoked from outside in one run.
MaxOps == 2
\* Largest number of execute_plan calls for the execution.
MaxPlanRuns == 1

\* ------------------------------------------------------ program constants
\* execute_plan passes max_retries: Some(2) for every SwarmTask.
PlanMaxRetries == 2

\* The request slots that can be in progress at once.
Handlers == {1, 2}

NoId == <<"none", 0>>
SwarmId(n) == <<"swarm", n>>
TaskId(n) == <<"task", n>>

SwarmTaskStatus ==
    {"pending", "blocked", "assigned", "running", "completed", "failed", "skipped"}
SwarmExecutionStatus ==
    {"planning", "planned", "executing", "reviewing", "merging", "completed",
     "failed", "cancelled"}
TaskStatus == {"todo", "inprogress", "inreview", "done", "cancelled"}

TooManyFailed == "Too many tasks failed"

\* ------------------------------------------------------------------ plans
\* A PlannedSubtask keeps required_skills and depends_on (0-based indices).
PlannedSubtask(skills, deps) == [required_skills |-> skills, depends_on |-> deps]

\* generate_subtasks, Trivial | Simple
PlanSimple == << PlannedSubtask({"backend"}, {}) >>

\* generate_subtasks, Moderate
PlanModerate ==
    << PlannedSubtask({"architecture"}, {}),
       PlannedSubtask({"backend", "frontend"}, {0}),
       PlannedSubtask({"testing"}, {1}) >>

\* generate_subtasks, Complex | Epic
PlanComplex ==
    << PlannedSubtask({"architecture"}, {}),
       PlannedSubtask({"backend", "database"}, {0}),
       PlannedSubtask({"frontend"}, {0}),
       PlannedSubtask({"backend", "frontend"}, {1, 2}),
       PlannedSubtask({"testing"}, {3}),
       PlannedSubtask({"documentation"}, {3}) >>

\* Plans a caller of execute_plan hands in: independent subtasks without
\* required skills, and the diamond s0 -> {s1, s2} -> s3.
PlanFanOut == << PlannedSubtask({}, {}), PlannedSubtask({}, {}) >>

PlanDiamond ==
    << PlannedSubtask({}, {}),
       PlannedSubtask({}, {0}),
       PlannedSubtask({}, {0}),
       PlannedSubtask({}, {1, 2}) >>

ReferencePlans == {PlanSimple, PlanModerate, PlanComplex}
Plans == {PlanSimple, PlanModerate, PlanFanOut}

\* --------------------------------------------------------------- workers
\* AgentProfile::find_workers: the active worker profiles, ORDER BY priority
\* DESC, name; each with the names of its skills (AgentProfile::get_skills).
Worker(id, skills) == [id |-> id, skills |-> skills]
AllSkills ==
    {"architecture", "backend", "database", "frontend", "testing", "documentation"}
NoWorkers == << >>
OneSkilledWorker == << Worker(1, AllSkills) >>
TwoWorkers == << Worker(1, {}), Worker(2, {"backend"}) >>
WorkerPools == {NoWorkers, OneSkilledWorker, TwoWorkers}

\* Deployments: the max_parallel_workers of the PlannerConfig that created
\* the execution, with a worker pool.
Deployments == { << 1, OneSkilledWorker >>, << 2, TwoWorkers >>, << 1, NoWorkers >> }

VARIABLES
    execStatus,     \* SwarmExecution.status
    errorMessage,   \* SwarmExecution.error_message ("" when NULL)
    maxParallel,    \* SwarmExecution.max_parallel_workers
    workers,        \* the worker pool, in find_workers order
    swarmTasks,     \* the SwarmTask rows of the execution, in insertion order
    taskStatus,     \* status of the child Task of each SwarmTask row
    plannerOutput,  \* SwarmExecution.planner_output (<< >> when NULL)
    planOf,         \* per row: the rows created for its plan dependencies
    events,         \* the SwarmEvents sent on the channel, with multiplicity
    nextWs,         \* number of Workspace rows created so far
    inflight,       \* rows handed to an agent that has not reported yet
    h,              \* the handlers in progress: operation, position, locals
    ops,            \* number of operations invoked so far
    reviewerCount,        \* SwarmExecution.reviewer_count
    consensusThreshold,   \* SwarmExecution.consensus_threshold
    consensusApprovals,   \* SwarmExecution.consensus_approvals
    consensusRejections,  \* SwarmExecution.consensus_rejections
    reviews,        \* the ConsensusReview rows of the execution, in insertion order
    reviewers,      \* number of active reviewer profiles (find_reviewers)
    config,         \* the ConsensusConfig of the ConsensusService
    c,              \* the consensus handlers in progress, and what the last one returned
    epicTask,       \* the epic Task handed to the planner: title and description
    plannerConfig,  \* the PlannerConfig of the PlannerService
    titleScore,     \* what estimate_title_complexity returned (0 before the call)
    decomposed      \* what decompose_task returned (NoPlan before the call)

\* What no planner or manager handler writes.
consensusVars == << reviewerCount, consensusThreshold, consensusApprovals,
                    consensusRejections, reviews, reviewers, config, c >>

\* What no manager or consensus handler writes, nor execute_plan.
decomposeVars == << epicTask, plannerConfig, titleScore, decomposed >>

vars == << execStatus, errorMessage, maxParallel, workers, swarmTasks, taskStatus,
           plannerOutput, planOf, events, nextWs, inflight, h, ops, consensusVars,
           decomposeVars >>

\* What no manager handler writes.
planVars == << plannerOutput, planOf >>

\* A handler slot with no request in progress.
Idle == [op |-> "idle", pc |-> "idle", st |-> 0, slots |-> 0, todo |-> << >>,
         agent |-> 0]

\* --------------------------------------------------- decomposition state
\* PlannerConfig::default()
DefaultPlannerConfig == [swarm_threshold |-> 2, max_subtasks |-> 10]

\* No epic was handed to the planner and nothing was decomposed.
NoEpic == [title |-> << >>, description_len |-> 0]
NoPlan == [complexity |-> "none", requires_swarm |-> FALSE, subtasks |-> << >>]

NoDecompose ==
    /\ epicTask = NoEpic
    /\ plannerConfig = DefaultPlannerConfig
    /\ titleScore = 0
    /\ decomposed = NoPlan

\* ------------------------------------------------------- consensus state
\* PlannerConfig::default().default_reviewer_count
DefaultReviewerCount == 3

\* i32 division by a positive number: the quotient is truncated toward zero.
Div(a, b) == IF a >= 0 THEN a \div b ELSE -((-a) \div b)

consensus_threshold_simple_majority(reviewer_count) == Div(reviewer_count, 2) + 1

\* SwarmExecution::create: f = (reviewer_count - 1) / 3, threshold 2f + 1
consensus_threshold(reviewer_count) == 2 * Div(reviewer_count - 1, 3) + 1

\* ConsensusConfig::default()
DefaultConfig == [min_reviewers |-> 3, max_rounds |-> 3]

\* A consensus handler slot with no request in progress; result is what the
\* last call of the slot returned.
CIdle == [op |-> "idle", pc |-> "idle", review |-> 0, vote |-> "pending",
          round |-> 0, left |-> 0, result |-> "none"]

\* The consensus fields of an execution that create_swarm_execution made
\* with the default reviewer count; no review was started.
NoConsensus ==
    /\ reviewerCount = DefaultReviewerCount
    /\ consensusThreshold = consensus_threshold(DefaultReviewerCount)
    /\ consensusApprovals = 0
    /\ consensusRejections = 0
    /\ reviews = << >>
    /\ reviewers = DefaultConfig.min_reviewers
    /\ config = DefaultConfig
    /\ c = [i \in Handlers |-> CIdle]

N == Len(swarmTasks)
Rows == 1..N

\* ---------------------------------------------------- SwarmTask queries
RECURSIVE SortRows(_)
\* ORDER BY sequence_order (rows of equal sequence_order in insertion order).
SortRows(S) ==
    IF S = {} THEN << >>
    ELSE LET k == CHOOSE x \in S :
                    \A y \in S \ {x} :
                        \/ swarmTasks[x].sequence_order < swarmTasks[y].sequence_order
                        \/ /\ swarmTasks[x].sequence_order = swarmTasks[y].sequence_order
                           /\ x < y
         IN  << k >> \o SortRows(S \ {k})

\* SwarmTask::find_by_swarm_execution
find_by_swarm_execution == SortRows(Rows)

\* SwarmTask::find_running_tasks
find_running_tasks ==
    SortRows({k \in Rows : swarmTasks[k].status \in {"running", "assigned"}})

\* The ready set without the dependency filter: every pending row.
find_ready_tasks_ignoring_dependencies ==
    SortRows({k \in Rows : swarmTasks[k].status = "pending"})

\* SwarmTask::find_ready_tasks: pending rows whose depends_on ids are all ids
\* of completed SwarmTasks.
find_ready_tasks ==
    LET completed_tasks ==
            {swarmTasks[k].id : k \in {r \in Rows : swarmTasks[r].status = "completed"}}
    IN  SortRows({k \in Rows :
                    /\ swarmTasks[k].status = "pending"
                    /\ \A dep_id \in swarmTasks[k].depends_on :
                           dep_id \in completed_tasks})

\* SwarmTask::all_completed
all_completed ==
    Cardinality({k \in Rows : swarmTasks[k].status \notin {"completed", "skipped"}}) = 0

CountStatus(s) == Cardinality({k \in Rows : swarmTasks[k].status = s})

\* SwarmTask::get_progress
get_progress ==
    [total |-> N,
     completed |-> CountStatus("completed"),
     running |-> CountStatus("running"),
     failed |-> CountStatus("failed"),
     pending |-> CountStatus("pending"),
     skipped |-> CountStatus("skipped")]

\* take(n) of an iterator
Take(seq, n) == SubSeq(seq, 1, IF n < Len(seq) THEN n ELSE Len(seq))

\* usize::saturating_sub
SaturatingSub(a, b) == IF a > b THEN a - b ELSE 0

\* ------------------------------------------------------------ assignment
RECURSIVE BestWorker(_, _, _, _, _)
\* The scoring loop of find_best_agent: a worker replaces the best one only
\* with a strictly larger score, and best_score starts at 0.
BestWorker(ws, required_skills, j, best_worker, best_score) ==
    IF j > Len(ws) THEN best_worker
    ELSE LET score == Cardinality(required_skills \cap ws[j].skills)
         IN  IF score > best_score
             THEN BestWorker(ws, required_skills, j + 1, ws[j].id, score)
             ELSE BestWorker(ws, required_skills, j + 1, best_worker, best_score)

\* SwarmManager::find_best_agent: the id of the chosen worker, 0 for
\* Err(NoAvailableWorkers).
find_best_agent(required_skills) ==
    IF Len(workers) = 0 THEN 0
    ELSE IF required_skills = {} THEN workers[1].id
    ELSE BestWorker(workers, required_skills, 1, 0, 0)

\* format!("{}/task-{}", branch_prefix, &id.to_string()[..8])
BranchName(id) == << "swarm/task-", id >>

\* --------------------------------------------------------------- planner
\* The SwarmTask row execute_plan creates for plan index idx (0-based) when
\* base rows exist already.  task_id_map holds, for every index up to idx,
\* the id of the child Task created for it.
NewSwarmTask(plan, base, idx) ==
    LET task_id_map == [j \in 0..idx |-> TaskId(base + j + 1)]
        planned == plan[idx + 1]
    IN  [id |-> SwarmId(base + idx + 1),
         task_id |-> TaskId(base + idx + 1),
         sequence_order |-> idx,
         depends_on |-> {task_id_map[j] : j \in planned.depends_on \cap (0..idx)},
         required_skills |-> planned.required_skills,
         status |-> "pending",
         assigned_agent_profile_id |-> 0,
         workspace_id |-> 0,
         branch_name |-> NoId,
         retry_count |-> 0,
         max_retries |-> PlanMaxRetries,
         started_at |-> "",
         completed_at |-> "",
         error_message |-> ""]

\* The rows execute_plan appends for a plan.
Materialize(plan, base) == [k \in 1..Len(plan) |-> NewSwarmTask(plan, base, k - 1)]

\* The plan's dependency edges over the rows created for it.
PlanEdges(plan, base) ==
    [k \in 1..Len(plan) |-> {base + j + 1 : j \in plan[k].depends_on}]

\* PlannerService::generate_plan: decompose_task yields the reference plan
\* for the epic's complexity; the plan is stored and the execution is marked
\* Planned, whatever its status was.
GeneratePlan(plan) ==
    /\ plannerOutput' = plan
    /\ execStatus' = "planned"
    /\ UNCHANGED << errorMessage, maxParallel, workers, consensusVars, decomposeVars, swarmTasks, taskStatus,
                    planOf, events, nextWs, inflight, h, ops >>

\* Number of execute_plan calls so far: each creates one row of
\* sequence_order 0.
PlanRuns == Cardinality({k \in Rows : swarmTasks[k].sequence_order = 0})

\* PlannerService::execute_plan
ExecutePlan(plan) ==
    /\ PlanRuns < MaxPlanRuns
    /\ N + Len(plan) <= MaxSubtasks
    /\ swarmTasks' = swarmTasks \o Materialize(plan, N)
    /\ taskStatus' = taskStatus \o [k \in 1..Len(plan) |-> "todo"]
    /\ planOf' = planOf \o PlanEdges(plan, N)
    /\ execStatus' = "executing"
    /\ UNCHANGED << errorMessage, maxParallel, workers, consensusVars, decomposeVars, plannerOutput, events,
                    nextWs, inflight, h, ops >>

\* ---------------------------------------------------- handler plumbing
\* emit_event, of a manager built with_event_channel.
Emit(e) == events' = events (+) SetToBag({e})

\* The handler in slot i returns.
Finish(i) == h' = [h EXCEPT ![i] = Idle]

Goto(i, pc) == h' = [h EXCEPT ![i].pc = pc]

\* A request for operation op on row k enters the first free slot, i, at
\* position pc.
Begin(i, op, pc, k) ==
    /\ h[i].op = "idle"
    /\ \A j \in Handlers : j < i => h[j].op # "idle"
    /\ h' = [h EXCEPT ![i] = [Idle EXCEPT !.op = op, !.pc = pc, !.st = k]]

Invoke(i, op, pc, k) ==
    /\ ops < MaxOps
    /\ ops' = ops + 1
    /\ Begin(i, op, pc, k)

SetStatus(tasks, k, s) == [tasks EXCEPT ![k].status = s]

\* ------------------------------------------- SwarmManager::execute_ready_tasks
StartTick(i) ==
    /\ Invoke(i, "tick", "t_exec", 0)
    /\ UNCHANGED << execStatus, errorMessage, maxParallel, workers, consensusVars, decomposeVars, swarmTasks,
                    taskStatus, planVars, events, nextWs, inflight >>

\* find_by_id and the status check at the head of the tick
TickExec(i) ==
    /\ h[i].pc = "t_exec"
    /\ IF execStatus # "executing" THEN Finish(i) ELSE Goto(i, "t_running")
    /\ UNCHANGED << execStatus, errorMessage, maxParallel, workers, consensusVars, decomposeVars, swarmTasks,
                    taskStatus, planVars, events, nextWs, inflight, ops >>

\* find_running_tasks and available_slots
TickRunning(i) ==
    /\ h[i].pc = "t_running"
    /\ LET available_slots == SaturatingSub(maxParallel, Len(find_running_tasks))
       IN  IF available_slots = 0
           THEN Finish(i)
           ELSE h' = [h EXCEPT ![i].pc = "t_ready", ![i].slots = available_slots]
    /\ UNCHANGED << execStatus, errorMessage, maxParallel, workers, consensusVars, decomposeVars, swarmTasks,
                    taskStatus, planVars, events, nextWs, inflight, ops >>

\* find_ready_tasks and tasks_to_start
TickReady(i) ==
    /\ h[i].pc = "t_ready"
    /\ LET tasks_to_start == Take(find_ready_tasks, h[i].slots)
       IN  h' = [h EXCEPT ![i].pc = IF tasks_to_start = << >> THEN "t_allc"
                                     ELSE "t_start",
                          ![i].todo = tasks_to_start]
    /\ UNCHANGED << execStatus, errorMessage, maxParallel, workers, consensusVars, decomposeVars, swarmTasks,
                    taskStatus, planVars, events, nextWs, inflight, ops >>

\* The position after start_task of the head of todo ended (Ok or Err).
NextStart(i) ==
    [h EXCEPT ![i].pc = IF Tail(h[i].todo) = << >> THEN "t_allc" ELSE "t_start",
              ![i].todo = Tail(h[i].todo),
              ![i].agent = 0]

\* SwarmTask::assign_agent
assign_agent(tasks, k, agent_profile_id) ==
    [tasks EXCEPT ![k].assigned_agent_profile_id = agent_profile_id,
                  ![k].status = "assigned"]

\* start_task: find_best_agent, then assign_agent; NoAvailableWorkers is
\* logged by the tick and the next task is tried.
TickAssign(i) ==
    /\ h[i].pc = "t_start"
    /\ LET k == Head(h[i].todo)
           agent == find_best_agent(swarmTasks[k].required_skills)
       IN  IF agent = 0
           THEN /\ h' = NextStart(i)
                /\ UNCHANGED swarmTasks
           ELSE /\ swarmTasks' = assign_agent(swarmTasks, k, agent)
                /\ h' = [h EXCEPT ![i].pc = "t_ws", ![i].agent = agent]
    /\ UNCHANGED << execStatus, errorMessage, maxParallel, workers, consensusVars, decomposeVars, taskStatus,
                    planVars, events, nextWs, inflight, ops >>

\* SwarmTask::set_workspace
set_workspace(tasks, k, workspace_id, branch_name) ==
    [tasks EXCEPT ![k].workspace_id = workspace_id, ![k].branch_name = branch_name]

\* start_task: Workspace::create, then set_workspace
TickWorkspace(i) ==
    /\ h[i].pc = "t_ws"
    /\ LET k == Head(h[i].todo)
       IN  /\ nextWs' = nextWs + 1
           /\ swarmTasks' = set_workspace(swarmTasks, k, nextWs + 1,
                                          BranchName(swarmTasks[k].id))
    /\ Goto(i, "t_run")
    /\ UNCHANGED << execStatus, errorMessage, maxParallel, workers, consensusVars, decomposeVars, taskStatus,
                    planVars, events, inflight, ops >>

\* SwarmTask::start ("" is NULL, "now" a time)
start(tasks, k) ==
    [tasks EXCEPT ![k].status = "running", ![k].started_at = "now"]

\* start_task: SwarmTask::start
TickRun(i) ==
    /\ h[i].pc = "t_run"
    /\ swarmTasks' = start(swarmTasks, Head(h[i].todo))
    /\ Goto(i, "t_task")
    /\ UNCHANGED << execStatus, errorMessage, maxParallel, workers, consensusVars, decomposeVars, taskStatus,
                    planVars, events, nextWs, inflight, ops >>

\* start_task: the child Task becomes InProgress and TaskStarted is sent;
\* from here on the agent works on the row.
TickTaskStarted(i) ==
    /\ h[i].pc = "t_task"
    /\ LET k == Head(h[i].todo)
       IN  /\ taskStatus' = [taskStatus EXCEPT ![k] = "inprogress"]
           /\ Emit([type |-> "TaskStarted", id |-> swarmTasks[k].id,
                    agent |-> h[i].agent])
           /\ inflight' = inflight \cup {k}
    /\ h' = NextStart(i)
    /\ UNCHANGED << execStatus, errorMessage, maxParallel, workers, consensusVars, decomposeVars, swarmTasks,
                    planVars, nextWs, ops >>

\* The all_completed check that ends the tick
TickAllCompleted(i) ==
    /\ h[i].pc = "t_allc"
    /\ IF all_completed THEN Goto(i, "t_review") ELSE Finish(i)
    /\ UNCHANGED << execStatus, errorMessage, maxParallel, workers, consensusVars, decomposeVars, swarmTasks,
                    taskStatus, planVars, events, nextWs, inflight, ops >>

\* update_status(Reviewing) and ConsensusRequired
TickReview(i) ==
    /\ h[i].pc = "t_review"
    /\ execStatus' = "reviewing"
    /\ Emit([type |-> "ConsensusRequired"])
    /\ Finish(i)
    /\ UNCHANGED << errorMessage, maxParallel, workers, consensusVars, decomposeVars, swarmTasks, taskStatus,
                    planVars, nextWs, inflight, ops >>

\* ------------------------------------------------ SwarmManager::complete_task
StartComplete(i, k) ==
    /\ k \in Rows
    /\ Invoke(i, "complete", "c_complete", k)
    /\ inflight' = inflight \ {k}
    /\ UNCHANGED << execStatus, errorMessage, maxParallel, workers, consensusVars, decomposeVars, swarmTasks,
                    taskStatus, planVars, events, nextWs >>

\* SwarmTask::complete
complete(tasks, k) ==
    [tasks EXCEPT ![k].status = "completed", ![k].completed_at = "now"]

\* complete_task: SwarmTask::complete
CompleteWrite(i) ==
    /\ h[i].pc = "c_complete"
    /\ swarmTasks' = complete(swarmTasks, h[i].st)
    /\ Goto(i, "c_task")
    /\ UNCHANGED << execStatus, errorMessage, maxParallel, workers, consensusVars, decomposeVars, taskStatus,
                    planVars, events, nextWs, inflight, ops >>

\* Task::update_status(Done) and TaskCompleted
CompleteTask(i) ==
    /\ h[i].pc = "c_task"
    /\ taskStatus' = [taskStatus EXCEPT ![h[i].st] = "done"]
    /\ Emit([type |-> "TaskCompleted", id |-> swarmTasks[h[i].st].id])
    /\ Goto(i, "c_prog")
    /\ UNCHANGED << execStatus, errorMessage, maxParallel, workers, consensusVars, decomposeVars, swarmTasks,
                    planVars, nextWs, inflight, ops >>

\* get_progress and ExecutionProgress; the handler goes on into
\* execute_ready_tasks.
CompleteProgress(i) ==
    /\ h[i].pc = "c_prog"
    /\ Emit([type |-> "ExecutionProgress", progress |-> get_progress])
    /\ Goto(i, "t_exec")
    /\ UNCHANGED << execStatus, errorMessage, maxParallel, workers, consensusVars, decomposeVars, swarmTasks,
                    taskStatus, planVars, nextWs, inflight, ops >>

\* ---------------------------------------------------- SwarmManager::fail_task
StartFail(i, k) ==
    /\ k \in Rows
    /\ Invoke(i, "fail", "f_check", k)
    /\ inflight' = inflight \ {k}
    /\ UNCHANGED << execStatus, errorMessage, maxParallel, workers, consensusVars, decomposeVars, swarmTasks,
                    taskStatus, planVars, events, nextWs >>

\* SwarmTask::retry, first statement: find_by_id and the retry_count check
FailCheck(i) ==
    /\ h[i].pc = "f_check"
    /\ LET task == swarmTasks[h[i].st]
       IN  IF task.retry_count >= task.max_retries
           THEN Goto(i, "f_fail")
           ELSE Goto(i, "f_retry")
    /\ UNCHANGED << execStatus, errorMessage, maxParallel, workers, consensusVars, decomposeVars, swarmTasks,
                    taskStatus, planVars, events, nextWs, inflight, ops >>

\* The UPDATE of SwarmTask::retry
retry(tasks, k) ==
    [tasks EXCEPT ![k].status = "pending",
                  ![k].retry_count = tasks[k].retry_count + 1,
                  ![k].error_message = "",
                  ![k].started_at = "",
                  ![k].completed_at = ""]

\* SwarmTask::retry, second statement; fail_task returns Ok(true)
FailRetry(i) ==
    /\ h[i].pc = "f_retry"
    /\ swarmTasks' = retry(swarmTasks, h[i].st)
    /\ Finish(i)
    /\ UNCHANGED << execStatus, errorMessage, maxParallel, workers, consensusVars, decomposeVars, taskStatus,
                    planVars, events, nextWs, inflight, ops >>

\* SwarmTask::fail
fail(tasks, k, error) ==
    [tasks EXCEPT ![k].status = "failed", ![k].error_message = error,
                  ![k].completed_at = "now"]

FailWrite(i) ==
    /\ h[i].pc = "f_fail"
    /\ swarmTasks' = fail(swarmTasks, h[i].st, "error")
    /\ Goto(i, "f_task")
    /\ UNCHANGED << execStatus, errorMessage, maxParallel, workers, consensusVars, decomposeVars, taskStatus,
                    planVars, events, nextWs, inflight, ops >>

\* Task::update_status(Cancelled) and TaskFailed
FailTask(i) ==
    /\ h[i].pc = "f_task"
    /\ taskStatus' = [taskStatus EXCEPT ![h[i].st] = "cancelled"]
    /\ Emit([type |-> "TaskFailed", id |-> swarmTasks[h[i].st].id])
    /\ Goto(i, "f_skip")
    /\ UNCHANGED << execStatus, errorMessage, maxParallel, workers, consensusVars, decomposeVars, swarmTasks,
                    planVars, nextWs, inflight, ops >>

RECURSIVE skip_dependent_tasks(_, _), SkipLoop(_, _, _, _)
\* SwarmManager::skip_dependent_tasks: every row of the list read at entry
\* that names failed_task_id in depends_on and was pending in that list is
\* skipped, and the cascade goes on from it.
skip_dependent_tasks(tasks, failed_task_id) ==
    SkipLoop(tasks, tasks, failed_task_id, 1)

\* The for loop of skip_dependent_tasks over all_tasks, at position j.
SkipLoop(tasks, all_tasks, failed_task_id, j) ==
    IF j > Len(find_by_swarm_execution) THEN tasks
    ELSE LET k == find_by_swarm_execution[j]
         IN  IF /\ failed_task_id \in all_tasks[k].depends_on
                /\ all_tasks[k].status = "pending"
             THEN SkipLoop(skip_dependent_tasks(SetStatus(tasks, k, "skipped"),
                                                all_tasks[k].id),
                           all_tasks, failed_task_id, j + 1)
             ELSE SkipLoop(tasks, all_tasks, failed_task_id, j + 1)

FailSkip(i) ==
    /\ h[i].pc = "f_skip"
    /\ swarmTasks' = skip_dependent_tasks(swarmTasks, swarmTasks[h[i].st].id)
    /\ Goto(i, "f_prog")
    /\ UNCHANGED << execStatus, errorMessage, maxParallel, workers, consensusVars, decomposeVars, taskStatus,
                    planVars, events, nextWs, inflight, ops >>

\* The majority check with >= in place of >.
TooManyTasksFailed_at_least_half(progress) ==
    progress.failed >= progress.total \div 2

\* "If more than half failed, fail the execution"
TooManyTasksFailed(progress) == progress.failed > progress.total \div 2

\* get_progress and the majority check
FailProgress(i) ==
    /\ h[i].pc = "f_prog"
    /\ IF TooManyTasksFailed(get_progress) THEN Goto(i, "f_seterr") ELSE Finish(i)
    /\ UNCHANGED << execStatus, errorMessage, maxParallel, workers, consensusVars, decomposeVars, swarmTasks,
                    taskStatus, planVars, events, nextWs, inflight, ops >>

\* SwarmExecution::set_error and ExecutionFailed
FailSetError(i) ==
    /\ h[i].pc = "f_seterr"
    /\ errorMessage' = TooManyFailed
    /\ execStatus' = "failed"
    /\ Emit([type |-> "ExecutionFailed", error |-> TooManyFailed])
    /\ Finish(i)
    /\ UNCHANGED << maxParallel, workers, consensusVars, decomposeVars, swarmTasks, taskStatus, planVars, nextWs,
                    inflight, ops >>

\* --------------------------------------- pause, resume and cancel_execution
StartPause(i) ==
    /\ Invoke(i, "pause", "p_exec", 0)
    /\ UNCHANGED << execStatus, errorMessage, maxParallel, workers, consensusVars, decomposeVars, swarmTasks,
                    taskStatus, planVars, events, nextWs, inflight >>

PauseExec(i) ==
    /\ h[i].pc = "p_exec"
    /\ IF execStatus # "executing" THEN Finish(i) ELSE Goto(i, "p_write")
    /\ UNCHANGED << execStatus, errorMessage, maxParallel, workers, consensusVars, decomposeVars, swarmTasks,
                    taskStatus, planVars, events, nextWs, inflight, ops >>

PauseWrite(i) ==
    /\ h[i].pc = "p_write"
    /\ execStatus' = "planned"
    /\ Finish(i)
    /\ UNCHANGED << errorMessage, maxParallel, workers, consensusVars, decomposeVars, swarmTasks, taskStatus,
                    planVars, events, nextWs, inflight, ops >>

StartResume(i) ==
    /\ Invoke(i, "resume", "r_exec", 0)
    /\ UNCHANGED << execStatus, errorMessage, maxParallel, workers, consensusVars, decomposeVars, swarmTasks,
                    taskStatus, planVars, events, nextWs, inflight >>

ResumeExec(i) ==
    /\ h[i].pc = "r_exec"
    /\ IF execStatus # "planned" THEN Finish(i) ELSE Goto(i, "r_write")
    /\ UNCHANGED << execStatus, errorMessage, maxParallel, workers, consensusVars, decomposeVars, swarmTasks,
                    taskStatus, planVars, events, nextWs, inflight, ops >>

\* update_status(Executing); the handler goes on into execute_ready_tasks
ResumeWrite(i) ==
    /\ h[i].pc = "r_write"
    /\ execStatus' = "executing"
    /\ Goto(i, "t_exec")
    /\ UNCHANGED << errorMessage, maxParallel, workers, consensusVars, decomposeVars, swarmTasks, taskStatus,
                    planVars, events, nextWs, inflight, ops >>

StartCancel(i) ==
    /\ Invoke(i, "cancel", "x_read", 0)
    /\ UNCHANGED << execStatus, errorMessage, maxParallel, workers, consensusVars, decomposeVars, swarmTasks,
                    taskStatus, planVars, events, nextWs, inflight >>

RECURSIVE SelectSeq2(_, _)
\* The rows of a list, in order, that the set keep contains.
SelectSeq2(seq, keep) ==
    IF seq = << >> THEN << >>
    ELSE (IF Head(seq) \in keep THEN << Head(seq) >> ELSE << >>)
         \o SelectSeq2(Tail(seq), keep)

\* cancel_execution: find_by_swarm_execution; the loop skips the rows that
\* were pending or blocked in that list.
CancelRead(i) ==
    /\ h[i].pc = "x_read"
    /\ LET to_skip == SelectSeq2(find_by_swarm_execution,
                                 {k \in Rows :
                                    swarmTasks[k].status \in {"pending", "blocked"}})
       IN  h' = [h EXCEPT ![i].pc = IF to_skip = << >> THEN "x_status" ELSE "x_skip",
                          ![i].todo = to_skip]
    /\ UNCHANGED << execStatus, errorMessage, maxParallel, workers, consensusVars, decomposeVars, swarmTasks,
                    taskStatus, planVars, events, nextWs, inflight, ops >>

\* SwarmTask::skip of the next row of the loop
CancelSkip(i) ==
    /\ h[i].pc = "x_skip"
    /\ swarmTasks' = SetStatus(swarmTasks, Head(h[i].todo), "skipped")
    /\ h' = [h EXCEPT ![i].pc = IF Tail(h[i].todo) = << >> THEN "x_status"
                                  ELSE "x_skip",
                       ![i].todo = Tail(h[i].todo)]
    /\ UNCHANGED << execStatus, errorMessage, maxParallel, workers, consensusVars, decomposeVars, taskStatus,
                    planVars, events, nextWs, inflight, ops >>

\* update_status(Cancelled)
CancelStatus(i) ==
    /\ h[i].pc = "x_status"
    /\ execStatus' = "cancelled"
    /\ Finish(i)
    /\ UNCHANGED << errorMessage, maxParallel, workers, consensusVars, decomposeVars, swarmTasks, taskStatus,
                    planVars, events, nextWs, inflight, ops >>

\* ------------------------------------------------------------ specification
\* One step of the handler in slot i.
HandlerStep(i) ==
    \/ TickExec(i)
    \/ TickRunning(i)
    \/ TickReady(i)
    \/ TickAssign(i)
    \/ TickWorkspace(i)
    \/ TickRun(i)
    \/ TickTaskStarted(i)
    \/ TickAllCompleted(i)
    \/ TickReview(i)
    \/ CompleteWrite(i)
    \/ CompleteTask(i)
    \/ CompleteProgress(i)
    \/ FailCheck(i)
    \/ FailRetry(i)
    \/ FailWrite(i)
    \/ FailTask(i)
    \/ FailSkip(i)
    \/ FailProgress(i)
    \/ FailSetError(i)
    \/ PauseExec(i)
    \/ PauseWrite(i)
    \/ ResumeExec(i)
    \/ ResumeWrite(i)
    \/ CancelRead(i)
    \/ CancelSkip(i)
    \/ CancelStatus(i)

\* A request arrives in slot i.
Request(i) ==
    \/ StartTick(i)
    \/ \E k \in Rows : StartComplete(i, k)
    \/ \E k \in Rows : StartFail(i, k)
    \/ StartPause(i)
    \/ StartResume(i)
    \/ StartCancel(i)

\* The rows of a plan after execute_plan and after every row was sent back
\* to pending by `retries` fail_task calls.
RowsAfter(plan, retries) ==
    [k \in 1..Len(plan) |->
        [Materialize(plan, 0)[k] EXCEPT !.retry_count = retries]]

\* An execution whose plan was executed, with the configured
\* max_parallel_workers and worker pool; every row has failed and been
\* retried up to max_retries times before it was ever dispatched.
Init ==
    /\ execStatus = "executing"
    /\ errorMessage = ""
    /\ \E d \in Deployments : maxParallel = d[1] /\ workers = d[2]
    /\ \E plan \in Plans, retries \in 0..PlanMaxRetries :
        /\ swarmTasks = RowsAfter(plan, retries)
        /\ taskStatus = [k \in 1..Len(plan) |-> "todo"]
        /\ planOf = PlanEdges(plan, 0)
    /\ plannerOutput = << >>
    /\ events = EmptyBag
    /\ nextWs = 0
    /\ inflight = {}
    /\ h = [i \in Handlers |-> Idle]
    /\ ops = 0
    /\ NoConsensus
    /\ NoDecompose

\* Requests of all kinds, two of them in progress at once.
Next == \E i \in Handlers : Request(i) \/ HandlerStep(i)

Spec == Init /\ [][Next]_vars

\* The execution as create_swarm_execution leaves it; the planner is called,
\* and then the manager dispatches, completes, pauses, resumes and cancels,
\* one request at a time.
InitPlan ==
    /\ execStatus = "planning"
    /\ errorMessage = ""
    /\ maxParallel \in {1, 2}
    /\ workers \in WorkerPools
    /\ swarmTasks = << >>
    /\ taskStatus = << >>
    /\ planOf = << >>
    /\ plannerOutput = << >>
    /\ events = EmptyBag
    /\ nextWs = 0
    /\ inflight = {}
    /\ h = [i \in Handlers |-> Idle]
    /\ ops = 0
    /\ NoConsensus
    /\ NoDecompose

NextPlan ==
    \/ /\ h[1].op = "idle"
       /\ \/ \E plan \in ReferencePlans : GeneratePlan(plan)
          \/ \E plan \in Plans \cup ReferencePlans : ExecutePlan(plan)
    \/ StartTick(1)
    \/ \E k \in Rows : StartComplete(1, k)
    \/ StartPause(1)
    \/ StartResume(1)
    \/ StartCancel(1)
    \/ TickExec(1)
    \/ TickRunning(1)
    \/ TickReady(1)
    \/ TickAssign(1)
    \/ TickWorkspace(1)
    \/ TickRun(1)
    \/ TickTaskStarted(1)
    \/ TickAllCompleted(1)
    \/ TickReview(1)
    \/ CompleteWrite(1)
    \/ CompleteTask(1)
    \/ CompleteProgress(1)
    \/ PauseExec(1)
    \/ PauseWrite(1)
    \/ ResumeExec(1)
    \/ ResumeWrite(1)
    \/ CancelRead(1)
    \/ CancelSkip(1)
    \/ CancelStatus(1)

SpecPlan == InitPlan /\ [][NextPlan]_vars

\* ------------------------------------------------------------------ claims
Status(k) == swarmTasks[k].status

Active == {k \in Rows : Status(k) \in {"assigned", "running"}}

\* C1: the number of rows with status assigned or running never exceeds
\* max_parallel_workers.
C1_ParallelBound == Cardinality(Active) <= maxParallel

\* More rows are assigned or running than max_parallel_workers allows.
C1_Exceeded == Cardinality(Active) > maxParallel

C3_DependenciesOverSwarmIds ==
    \A k \in Rows : swarmTasks[k].depends_on = {swarmTasks[d].id : d \in planOf[k]}

\* C5: the execution goes from executing to reviewing only in a state where
\* every row is completed or skipped.
C5_ReviewingOnlyWhenAllDone ==
    [][(execStatus = "executing" /\ execStatus' = "reviewing")
          => \A k \in Rows : Status(k) \in {"completed", "skipped"}]_vars

RECURSIVE Dependents(_)
\* The rows that depend, directly or through other rows, on a row of S by
\* the dependencies declared in the plan.
Dependents(S) ==
    LET more == {k \in Rows : planOf[k] \cap S # {}} \ S
    IN  IF more = {} THEN S ELSE Dependents(S \cup more)

\* The fail_task in slot i returns Ok(false) in this step: it marked its row
\* failed.
FailReturns(i) ==
    /\ h[i].op = "fail"
    /\ h[i].pc \in {"f_prog", "f_seterr"}
    /\ h'[i].op = "idle"

\* C6: when fail_task has marked a row failed and returns, every row that
\* depends on it through the plan is skipped, failed or completed.
C6_CascadingSkip ==
    [][\A i \in Handlers :
          FailReturns(i)
              => \A k \in Dependents({h[i].st}) \ {h[i].st} :
                     swarmTasks'[k].status \in {"skipped", "failed", "completed"}]_vars

Failed == {k \in Rows : Status(k) = "failed"}

ExecutionFailedEvent == [type |-> "ExecutionFailed", error |-> TooManyFailed]

\* C8: when fail_task has marked a row failed, it fails the execution (status
\* failed, the error message, one ExecutionFailed) exactly if a strict
\* majority of the rows is failed, and otherwise returns leaving the status
\* and the error message as they were.
C8_MajorityFailure ==
    [][\A i \in Handlers :
          /\ (h[i].pc = "f_prog" /\ h'[i] # h[i])
                => IF 2 * Cardinality(Failed) > N
                   THEN /\ h'[i].pc = "f_seterr"
                        /\ UNCHANGED << execStatus, errorMessage, events >>
                   ELSE /\ h'[i].op = "idle"
                        /\ UNCHANGED << execStatus, errorMessage, events >>
          /\ (h[i].pc = "f_seterr" /\ h'[i] # h[i])
                => /\ execStatus' = "failed"
                   /\ errorMessage' = TooManyFailed
                   /\ events' = events (+) SetToBag({ExecutionFailedEvent})
                   /\ h'[i].op = "idle"]_vars

\* fail_task has failed an execution of several rows.
C8_Witness ==
    /\ execStatus = "failed"
    /\ errorMessage = TooManyFailed
    /\ CopiesIn(ExecutionFailedEvent, events) = 1
    /\ N > 1
    /\ 2 * Cardinality(Failed) > N

\* C9: retry_count never exceeds max_retries.
C9_RetryBound ==
    \A k \in Rows : swarmTasks[k].retry_count <= swarmTasks[k].max_retries

\* A row is completed, skipped, or failed with its retries used up.
Terminal(k) ==
    \/ Status(k) \in {"completed", "skipped"}
    \/ Status(k) = "failed" /\ swarmTasks[k].retry_count = swarmTasks[k].max_retries

\* C10: a terminal row keeps its status and its retry_count.
C10_TerminalAbsorbing ==
    [][\A k \in Rows :
          Terminal(k) => /\ swarmTasks'[k].status = Status(k)
                         /\ swarmTasks'[k].retry_count = swarmTasks[k].retry_count]_vars

\* C11: when fail_task retries a row, the row is pending afterwards, its
\* retry_count is larger by one, and its workspace_id, branch_name, started_at,
\* completed_at and error_message are null.
C11_RetryResets ==
    [][\A i \in Handlers :
          (h[i].pc = "f_retry" /\ h'[i] # h[i])
              => LET k == h[i].st
                 IN  /\ swarmTasks'[k].status = "pending"
                     /\ swarmTasks'[k].retry_count = swarmTasks[k].retry_count + 1
                     /\ swarmTasks'[k].workspace_id = 0
                     /\ swarmTasks'[k].branch_name = NoId
                     /\ swarmTasks'[k].started_at = ""
                     /\ swarmTasks'[k].completed_at = ""
                     /\ swarmTasks'[k].error_message = ""]_vars

\* ------------------------------------------------- the execution phase, live
\* A tick is scheduled: execute_ready_tasks is called again and again.
LiveTick(i) ==
    /\ Begin(i, "tick", "t_exec", 0)
    /\ UNCHANGED << execStatus, errorMessage, maxParallel, workers, consensusVars, decomposeVars, swarmTasks,
                    taskStatus, planVars, events, nextWs, inflight, ops >>

\* The agent working on row k reports success: complete_task(k).
ReportCompleted(i, k) ==
    /\ k \in inflight
    /\ Begin(i, "complete", "c_complete", k)
    /\ inflight' = inflight \ {k}
    /\ UNCHANGED << execStatus, errorMessage, maxParallel, workers, consensusVars, decomposeVars, swarmTasks,
                    taskStatus, planVars, events, nextWs, ops >>

\* The agent working on row k reports an error: fail_task(k, error).
ReportFailed(i, k) ==
    /\ k \in inflight
    /\ Begin(i, "fail", "f_check", k)
    /\ inflight' = inflight \ {k}
    /\ UNCHANGED << execStatus, errorMessage, maxParallel, workers, consensusVars, decomposeVars, swarmTasks,
                    taskStatus, planVars, events, nextWs, ops >>

\* One step of a tick, complete_task or fail_task in slot i.
LiveStep(i) ==
    \/ TickExec(i)
    \/ TickRunning(i)
    \/ TickReady(i)
    \/ TickAssign(i)
    \/ TickWorkspace(i)
    \/ TickRun(i)
    \/ TickTaskStarted(i)
    \/ TickAllCompleted(i)
    \/ TickReview(i)
    \/ CompleteWrite(i)
    \/ CompleteTask(i)
    \/ CompleteProgress(i)
    \/ FailCheck(i)
    \/ FailRetry(i)
    \/ FailWrite(i)
    \/ FailTask(i)
    \/ FailSkip(i)
    \/ FailProgress(i)
    \/ FailSetError(i)

LivePlans == ReferencePlans \cup {PlanFanOut, PlanDiamond}

\* An execution whose plan was just executed, in a deployment that has
\* workers.
InitLive ==
    /\ execStatus = "executing"
    /\ errorMessage = ""
    /\ \E d \in Deployments \ {<< 1, NoWorkers >>} :
            maxParallel = d[1] /\ workers = d[2]
    /\ \E plan \in LivePlans :
        /\ Len(plan) <= MaxSubtasks
        /\ swarmTasks = Materialize(plan, 0)
        /\ taskStatus = [k \in 1..Len(plan) |-> "todo"]
        /\ planOf = PlanEdges(plan, 0)
    /\ plannerOutput = << >>
    /\ events = EmptyBag
    /\ nextWs = 0
    /\ inflight = {}
    /\ h = [i \in Handlers |-> Idle]
    /\ ops = 0
    /\ NoConsensus
    /\ NoDecompose

\* The calls are served one after the other, in slot 1.
Scheduled == LiveTick(1)

Reported == \E k \in Rows : ReportCompleted(1, k) \/ ReportFailed(1, k)

NextLive ==
    \/ Scheduled
    \/ Reported
    \/ LiveStep(1)

\* The handler in progress runs on, every agent that was handed a row
\* reports, and ticks keep being scheduled.
SpecLive ==
    /\ InitLive
    /\ [][NextLive]_vars
    /\ WF_vars(LiveStep(1))
    /\ SF_vars(Scheduled)
    /\ SF_vars(Reported)

\* The rows are those of a plan of the reference planner.
ReferenceRows ==
    \E plan \in ReferencePlans :
        /\ planOf = PlanEdges(plan, 0)
        /\ \A k \in Rows : swarmTasks[k].required_skills = plan[k].required_skills

NoFailureReported == \A i \in Handlers : h[i].op # "fail"

AllRowsCompleted == \A k \in Rows : Status(k) = "completed"

\* C4: with a plan of the reference planner and agents that only ever report
\* completion, every row is eventually completed and the execution reaches
\* reviewing.
C4_ReferencePlanCompletes ==
    (ReferenceRows /\ []NoFailureReported)
        => <>(AllRowsCompleted /\ execStatus = "reviewing")

\* Some row failed for good without a strict majority of rows failed, and
\* every other row is completed or skipped.
FailedWithoutMajority ==
    /\ Failed # {}
    /\ ~(2 * Cardinality(Failed) > N)
    /\ \A k \in Rows : Status(k) \in {"failed", "completed", "skipped"}

\* C7: after a permanent failure that leaves no strict majority of rows
\* failed, once all other rows are completed or skipped the execution
\* reaches reviewing.
C7_ReviewingAfterMinorityFailure ==
    FailedWithoutMajority ~> (execStatus = "reviewing")

\* --------------------------------------------- the calls served one at a time
\* An execution whose plan was executed and whose first tick is in progress
\* (slot 1); every row may have been retried before, as in Init.
InitServe ==
    /\ execStatus = "executing"
    /\ errorMessage = ""
    /\ \E d \in Deployments : maxParallel = d[1] /\ workers = d[2]
    /\ \E plan \in LivePlans, retries \in 0..PlanMaxRetries :
        /\ Len(plan) <= MaxSubtasks
        /\ swarmTasks = RowsAfter(plan, retries)
        /\ taskStatus = [k \in 1..Len(plan) |-> "todo"]
        /\ planOf = PlanEdges(plan, 0)
    /\ plannerOutput = << >>
    /\ events = EmptyBag
    /\ nextWs = 0
    /\ inflight = {}
    /\ h = [i \in Handlers |->
                IF i = 1 THEN [Idle EXCEPT !.op = "tick", !.pc = "t_exec"] ELSE Idle]
    /\ ops = 0
    /\ NoConsensus
    /\ NoDecompose

\* A request is taken only when the one before it has returned.
NextServe == Request(1) \/ HandlerStep(1)

SpecServe == InitServe /\ [][NextServe]_vars

\* C12: a skipped row has no workspace_id and no branch_name.
C12_SkippedHasNoWorkspace ==
    \A k \in Rows :
        Status(k) = "skipped"
            => swarmTasks[k].workspace_id = 0 /\ swarmTasks[k].branch_name = NoId

\* The ready set of the plan: pending rows whose plan dependencies are all
\* completed.
ReadyByPlan ==
    {k \in Rows :
        Status(k) = "pending" /\ \A d \in planOf[k] : Status(d) = "completed"}

\* The free capacity of the execution.
Free == maxParallel - Cardinality(Active)

\* C13: a tick with free capacity chooses exactly the first min(free, |ready|)
\* rows of the plan's ready set in ascending sequence_order, and starts each of
\* them that a worker can be assigned to.
C13_TickStartsFirstReady ==
    [][\A i \in Handlers :
          /\ (h[i].pc = "t_ready" /\ h'[i] # h[i])
                => h'[i].todo = Take(SortRows(ReadyByPlan), Free)
          /\ (h[i].pc = "t_start" /\ h'[i] # h[i]
                /\ find_best_agent(swarmTasks[Head(h[i].todo)].required_skills) # 0)
                => swarmTasks'[Head(h[i].todo)].status = "assigned"]_vars

\* ------------------------------------------------ the event-driven control flow
\* Nothing schedules a tick: after the tick that follows execute_plan,
\* execute_ready_tasks runs only where a handler calls it. The agents report.
NextEvents ==
    \/ Reported
    \/ LiveStep(1)

\* The handler in progress runs on and every agent that was handed a row
\* reports.
SpecEvents ==
    /\ InitServe
    /\ [][NextEvents]_vars
    /\ WF_vars(LiveStep(1))
    /\ SF_vars(Reported)

\* fail_task has retried a row or has failed one for good.
AfterFailTask == Failed # {} \/ \E j \in Rows : swarmTasks[j].retry_count > 0

\* Row k is ready, a worker can be assigned to it and capacity is free, in an
\* execution that goes on after a fail_task.
ReadyAfterFailTask(k) ==
    /\ execStatus = "executing"
    /\ AfterFailTask
    /\ k \in ReadyByPlan
    /\ find_best_agent(swarmTasks[k].required_skills) # 0
    /\ Free > 0

\* C14: after fail_task freed a slot without failing the execution, every
\* ready row (the retried one included) is eventually dispatched, given a
\* worker for it and free capacity.
C14_DispatchedAfterFailTask ==
    \A k \in 1..MaxSubtasks :
        (k \in Rows /\ ReadyAfterFailTask(k))
            ~> (k \in Rows /\ (Status(k) # "pending" \/ execStatus # "executing"))

\* The skill-overlap score of the j-th worker of the pool.
Overlap(required_skills, j) == Cardinality(required_skills \cap workers[j].skills)

\* The worker of maximum overlap, the one of highest priority (first in the
\* pool's order) among equals.
MaxOverlapWorker(required_skills) ==
    LET j == CHOOSE a \in 1..Len(workers) :
                \A b \in 1..Len(workers) :
                    \/ Overlap(required_skills, a) > Overlap(required_skills, b)
                    \/ Overlap(required_skills, a) = Overlap(required_skills, b) /\ a <= b
    IN  workers[j].id

\* C15: with a non-empty worker pool the assignment policy gives every row a
\* worker, the one of maximum skill overlap (zero included) and of highest
\* priority among equals; it fails only when the pool is empty.
C15_WorkerWheneverPoolNonEmpty ==
    [][\A i \in Handlers :
          (h[i].pc = "t_start" /\ h'[i] # h[i])
              => LET k == Head(h[i].todo)
                     required_skills == swarmTasks[k].required_skills
                 IN  IF Len(workers) = 0
                     THEN swarmTasks'[k] = swarmTasks[k]
                     ELSE /\ h'[i].pc = "t_ws"
                          /\ swarmTasks'[k].assigned_agent_profile_id
                                = MaxOverlapWorker(required_skills)]_vars

\* Row k moves to assigned or running in this step.
Dispatched(k) ==
    /\ swarmTasks'[k].status \in {"assigned", "running"}
    /\ swarmTasks'[k].status # swarmTasks[k].status

\* C16: while the execution is paused (status planned) no row moves to
\* assigned or running.
C16_NoDispatchWhilePaused ==
    [][execStatus = "planned" => \A k \in Rows : ~Dispatched(k)]_vars

\* ------------------------------------------- agents reporting, pause and resume
\* execute_ready_tasks returns Err(InvalidStateTransition): the execution it
\* read is not executing.  complete_task passes the error on to its caller.
InvalidStateTransition(i) == h[i].pc = "t_exec" /\ execStatus # "executing"

\* The only completions and failures are those the agents report for the rows
\* handed to them; the execution is paused and resumed meanwhile.
NextAgents ==
    \/ Reported
    \/ StartPause(1)
    \/ StartResume(1)
    \/ LiveStep(1)
    \/ PauseExec(1)
    \/ PauseWrite(1)
    \/ ResumeExec(1)
    \/ ResumeWrite(1)

SpecAgents == InitServe /\ [][NextAgents]_vars

\* C17: the report of an agent for a running row of a paused execution is
\* honoured (complete_task: row completed, child Task done; fail_task: retry or
\* failure) and the handler does not return an error.
C17_ReportHonouredWhilePaused ==
    [][\A i \in Handlers :
          (execStatus = "planned" /\ h[i].op \in {"complete", "fail"} /\ h'[i] # h[i])
              => LET k == h[i].st
                 IN  /\ h[i].pc = "c_complete" => swarmTasks'[k].status = "completed"
                     /\ h[i].pc = "c_task" => taskStatus'[k] = "done"
                     /\ h[i].pc = "f_retry" => swarmTasks'[k].status = "pending"
                     /\ h[i].pc = "f_fail" => swarmTasks'[k].status = "failed"
                     /\ ~InvalidStateTransition(i)]_vars

\* No row is pending or blocked.
NonePending(tasks) == \A k \in Rows : tasks[k].status \notin {"pending", "blocked"}

\* C18: cancel_execution sets the execution to cancelled and leaves the rows
\* that are assigned, running, completed or failed as they are; when it has
\* returned no row is pending or blocked, and none is started afterwards.
C18_CancelSkipsAndStops ==
    [][/\ \A i \in Handlers :
            (h[i].op = "cancel" /\ h'[i] # h[i])
                => /\ h[i].pc = "x_status"
                        => execStatus' = "cancelled" /\ NonePending(swarmTasks')
                   /\ \A k \in Rows :
                        Status(k) \in {"assigned", "running", "completed", "failed"}
                            => swarmTasks'[k] = swarmTasks[k]
       /\ execStatus = "cancelled"
            => NonePending(swarmTasks') /\ \A k \in Rows : ~Dispatched(k)]_vars

\* The events of type t sent so far.
Sent(bag, t) ==
    LET es == {e \in BagToSet(bag) : e.type = t}
    IN  IF es = {} THEN 0 ELSE BagCardinality([e \in es |-> CopiesIn(e, bag)])

\* C19: a complete_task or fail_task for a row of a cancelled execution
\* changes neither the row's status and retry_count, nor the child Task's
\* status, nor the execution's status and error_message, and sends no
\* TaskCompleted, TaskFailed or ExecutionFailed.
C19_LateEventDiscarded ==
    [][\A i \in Handlers :
          (execStatus = "cancelled" /\ h[i].op \in {"complete", "fail"} /\ h'[i] # h[i])
              => LET k == h[i].st
                 IN  /\ swarmTasks'[k].status = swarmTasks[k].status
                     /\ swarmTasks'[k].retry_count = swarmTasks[k].retry_count
                     /\ taskStatus'[k] = taskStatus[k]
                     /\ execStatus' = execStatus
                     /\ errorMessage' = errorMessage
                     /\ \A t \in {"TaskCompleted", "TaskFailed", "ExecutionFailed"} :
                            Sent(events', t) = Sent(events, t)]_vars

\* C20: ConsensusRequired is sent once per transition to reviewing: only in
\* a step that moves the execution to reviewing, and once in that step; a
\* handler that finds the execution reviewing already sends none.
C20_ConsensusRequiredOnce ==
    [][Sent(events', "ConsensusRequired") # Sent(events, "ConsensusRequired")
          => /\ Sent(events', "ConsensusRequired") = Sent(events, "ConsensusRequired") + 1
             /\ execStatus # "reviewing"
             /\ execStatus' = "reviewing"]_vars

\* ------------------------------------------------ complete_task called again
\* complete_task(k) is called for a row that is completed already; the call is
\* the same handler, marked so that its steps can be told apart.
StartCompleteAgain(i, k) ==
    /\ k \in Rows
    /\ swarmTasks[k].status = "completed"
    /\ Invoke(i, "complete again", "c_complete", k)
    /\ inflight' = inflight \ {k}
    /\ UNCHANGED << execStatus, errorMessage, maxParallel, workers, consensusVars, decomposeVars,
                    swarmTasks, taskStatus, planVars, events, nextWs >>

NextReplay ==
    \/ Request(1)
    \/ \E k \in Rows : StartCompleteAgain(1, k)
    \/ HandlerStep(1)

SpecReplay == InitServe /\ [][NextReplay]_vars

\* The positions of execute_ready_tasks.
TickPositions ==
    {"t_exec", "t_running", "t_ready", "t_start", "t_ws", "t_run", "t_task",
     "t_allc", "t_review"}

\* C21: complete_task for a row that is completed already is a no-op: no
\* field of the rows, of the child Tasks or of the execution changes, the
\* progress counters stay, no event is sent and no tick is run.
C21_CompleteAgainIsNoOp ==
    [][\A i \in Handlers :
          (h[i].op = "complete again" /\ h'[i] # h[i])
              => /\ swarmTasks' = swarmTasks
                 /\ taskStatus' = taskStatus
                 /\ execStatus' = execStatus
                 /\ errorMessage' = errorMessage
                 /\ get_progress' = get_progress
                 /\ events' = events
                 /\ h'[i].pc \notin TickPositions]_vars

\* TaskCompleted or TaskFailed for row k is sent in this step.
TerminalEventSent(k) ==
    LET done == [type |-> "TaskCompleted", id |-> swarmTasks[k].id]
        failed == [type |-> "TaskFailed", id |-> swarmTasks[k].id]
    IN  \/ CopiesIn(done, events') > CopiesIn(done, events)
        \/ CopiesIn(failed, events') > CopiesIn(failed, events)

\* TaskStarted was sent for row k, and the row's current attempt was started.
AttemptStarted(k) ==
    /\ \E e \in BagToSet(events) : e.type = "TaskStarted" /\ e.id = swarmTasks[k].id
    /\ swarmTasks[k].started_at # ""

\* C22: TaskCompleted and TaskFailed are sent for a row only after a
\* TaskStarted of the row's current attempt; never for a row that was not
\* started.
C22_StartedBeforeTerminalEvent ==
    [][\A k \in Rows : TerminalEventSent(k) => AttemptStarted(k)]_vars

\* ----------------------------------------------------------- ConsensusService
\* The reviewer counts executions are created with, the numbers of active
\* reviewer profiles, and the configurations of the service.
ReviewerCounts == {3, 4, 7}
ReviewerPools == {2, 3, 4}
Configs == {DefaultConfig, [min_reviewers |-> 3, max_rounds |-> 1]}

\* Number of consensus calls in a behaviour.
MaxReviewOps == 5

Votes == {"approve", "reject", "abstain"}

\* What no consensus handler writes.
swarmVars == << maxParallel, workers, swarmTasks, taskStatus, plannerOutput, planOf,
                events, nextWs, inflight, h >>

\* What only SwarmExecution::create writes, and the environment.
createVars == << reviewerCount, consensusThreshold, reviewers, config >>

\* ConsensusReview::create: the row of the reviewer for the round
NewReview(reviewer_profile_id, round) ==
    [reviewer_profile_id |-> reviewer_profile_id, vote |-> "pending", round |-> round]

\* ConsensusReview::get_latest_round: COALESCE(MAX(round), 0)
get_latest_round ==
    IF reviews = << >> THEN 0
    ELSE CHOOSE r \in {reviews[j].round : j \in 1..Len(reviews)} :
            \A j \in 1..Len(reviews) : reviews[j].round <= r

\* SUM(CASE WHEN vote = v THEN 1 ELSE 0 END) over the reviews of the execution
CountVote(v) == Cardinality({j \in 1..Len(reviews) : reviews[j].vote = v})

\* ConsensusReview::get_consensus_summary
get_consensus_summary(threshold) ==
    LET total == Len(reviews)
        approvals == CountVote("approve")
        rejections == CountVote("reject")
    IN  [total_reviewers |-> total,
         votes_cast |-> total - CountVote("pending"),
         approvals |-> approvals,
         rejections |-> rejections,
         abstentions |-> CountVote("abstain"),
         pending |-> CountVote("pending"),
         threshold |-> threshold,
         has_consensus |-> approvals >= threshold,
         consensus_failed |-> rejections > total - threshold]

\* A consensus request enters the first free slot.
CBegin(i, op, pc, review, vote) ==
    /\ ops < MaxReviewOps
    /\ ops' = ops + 1
    /\ c[i].op = "idle"
    /\ \A j \in Handlers : j < i => c[j].op # "idle"
    /\ c' = [c EXCEPT ![i] = [CIdle EXCEPT !.op = op, !.pc = pc, !.review = review,
                                           !.vote = vote]]

\* The consensus handler in slot i returns result.
CReturn(i, result) == c' = [c EXCEPT ![i] = [CIdle EXCEPT !.result = result]]

CGoto(i, pc) == c' = [c EXCEPT ![i].pc = pc]

\* ------------------------------------------- ConsensusService::start_review
StartReview(i) ==
    /\ CBegin(i, "start_review", "s_exec", 0, "pending")
    /\ UNCHANGED << execStatus, errorMessage, swarmVars, decomposeVars, createVars,
                    consensusApprovals, consensusRejections, reviews >>

\* find_by_id and the status check
ReviewExec(i) ==
    /\ c[i].pc = "s_exec"
    /\ IF execStatus # "reviewing"
       THEN CReturn(i, "NotInReviewPhase")
       ELSE CGoto(i, "s_reviewers")
    /\ UNCHANGED << execStatus, errorMessage, swarmVars, decomposeVars, createVars,
                    consensusApprovals, consensusRejections, reviews, ops >>

\* find_reviewers and the min_reviewers check
ReviewReviewers(i) ==
    /\ c[i].pc = "s_reviewers"
    /\ IF reviewers < config.min_reviewers
       THEN CReturn(i, "NoReviewersAvailable")
       ELSE CGoto(i, "s_round")
    /\ UNCHANGED << execStatus, errorMessage, swarmVars, decomposeVars, createVars,
                    consensusApprovals, consensusRejections, reviews, ops >>

\* get_latest_round; reviewer_count = execution.reviewer_count.min(reviewers.len())
ReviewRound(i) ==
    /\ c[i].pc = "s_round"
    /\ LET reviewer_count == IF reviewerCount < reviewers THEN reviewerCount
                             ELSE reviewers
       IN  IF reviewer_count <= 0
           THEN CReturn(i, "Ok")
           ELSE c' = [c EXCEPT ![i].pc = "s_create",
                               ![i].round = get_latest_round + 1,
                               ![i].left = reviewer_count,
                               ![i].review = 1]
    /\ UNCHANGED << execStatus, errorMessage, swarmVars, decomposeVars, createVars,
                    consensusApprovals, consensusRejections, reviews, ops >>

UniqueReview_unconstrained(reviewer_profile_id, round) == TRUE

\* The consensus_reviews table holds one row per reviewer per round of the
\* execution: an INSERT of a second one is refused.
UniqueReview(reviewer_profile_id, round) ==
    \A j \in 1..Len(reviews) :
        ~(/\ reviews[j].reviewer_profile_id = reviewer_profile_id
          /\ reviews[j].round = round)

\* ConsensusReview::create for the next reviewer of the list; a refused
\* INSERT ends start_review with the database error (create(...).await?)
ReviewCreate(i) ==
    /\ c[i].pc = "s_create"
    /\ IF ~UniqueReview(c[i].review, c[i].round)
       THEN /\ CReturn(i, "Database")
            /\ UNCHANGED reviews
       ELSE /\ reviews' = Append(reviews, NewReview(c[i].review, c[i].round))
            /\ IF c[i].left = 1
               THEN CReturn(i, "Ok")
               ELSE c' = [c EXCEPT ![i].left = c[i].left - 1,
                                   ![i].review = c[i].review + 1]
    /\ UNCHANGED << execStatus, errorMessage, swarmVars, decomposeVars, createVars,
                    consensusApprovals, consensusRejections, ops >>

\* --------------------------------------------- ConsensusService::submit_vote
SubmitVote(i, review_id, vote) ==
    /\ review_id \in 1..Len(reviews)
    /\ CBegin(i, "submit_vote", "v_find", review_id, vote)
    /\ UNCHANGED << execStatus, errorMessage, swarmVars, decomposeVars, createVars,
                    consensusApprovals, consensusRejections, reviews >>

ReviewAlreadySubmitted_never(existing_review) == FALSE

\* existing_review.vote != ConsensusVote::Pending
ReviewAlreadySubmitted(existing_review) == existing_review.vote # "pending"

\* ConsensusReview::find_by_id and the check of the vote
VoteFind(i) ==
    /\ c[i].pc = "v_find"
    /\ IF ReviewAlreadySubmitted(reviews[c[i].review])
       THEN CReturn(i, "ReviewAlreadySubmitted")
       ELSE CGoto(i, "v_write")
    /\ UNCHANGED << execStatus, errorMessage, swarmVars, decomposeVars, createVars,
                    consensusApprovals, consensusRejections, reviews, ops >>

\* ConsensusReview::submit_vote (UPDATE ... WHERE id = $1); an abstention
\* returns from here
VoteWrite(i) ==
    /\ c[i].pc = "v_write"
    /\ reviews' = [reviews EXCEPT ![c[i].review].vote = c[i].vote]
    /\ IF c[i].vote \in {"approve", "reject"}
       THEN CGoto(i, "v_count")
       ELSE CReturn(i, "Ok")
    /\ UNCHANGED << execStatus, errorMessage, swarmVars, decomposeVars, createVars,
                    consensusApprovals, consensusRejections, ops >>

\* SwarmExecution::increment_approval / increment_rejection
VoteCount(i) ==
    /\ c[i].pc = "v_count"
    /\ IF c[i].vote = "approve"
       THEN /\ consensusApprovals' = consensusApprovals + 1
            /\ UNCHANGED consensusRejections
       ELSE /\ consensusRejections' = consensusRejections + 1
            /\ UNCHANGED consensusApprovals
    /\ CReturn(i, "Ok")
    /\ UNCHANGED << execStatus, errorMessage, swarmVars, decomposeVars, createVars, reviews, ops >>

\* -------------------------------------- ConsensusService::finalize_consensus
FinalizeConsensus(i) ==
    /\ CBegin(i, "finalize_consensus", "z_summary", 0, "pending")
    /\ UNCHANGED << execStatus, errorMessage, swarmVars, decomposeVars, createVars,
                    consensusApprovals, consensusRejections, reviews >>

\* evaluate_consensus: find_by_id, get_consensus_summary and the two
\* thresholds. With no review row the SUMs of the summary query are NULL
\* for columns declared non-null: the row decodes to zeros or the query
\* fails with a database error, as the driver has it.
EvaluateSummary(i) ==
    /\ c[i].pc = "z_summary"
    /\ \/ /\ reviews = << >>
          /\ CReturn(i, "Database")
       \/ LET summary == get_consensus_summary(consensusThreshold)
          IN  IF summary.has_consensus
              THEN c' = [c EXCEPT ![i].pc = "z_apply", ![i].result = "Approved"]
              ELSE IF summary.consensus_failed
              THEN c' = [c EXCEPT ![i].pc = "z_apply", ![i].result = "Rejected"]
              ELSE IF summary.pending = 0
              THEN CGoto(i, "z_round")
              ELSE c' = [c EXCEPT ![i].pc = "z_apply", ![i].result = "Pending"]
    /\ UNCHANGED << execStatus, errorMessage, swarmVars, decomposeVars, createVars,
                    consensusApprovals, consensusRejections, reviews, ops >>

\* evaluate_consensus: all votes are in; get_latest_round against max_rounds
EvaluateRound(i) ==
    /\ c[i].pc = "z_round"
    /\ c' = [c EXCEPT ![i].pc = "z_apply",
                      ![i].result = IF get_latest_round >= config.max_rounds
                                    THEN "Deadlock" ELSE "Pending"]
    /\ UNCHANGED << execStatus, errorMessage, swarmVars, decomposeVars, createVars,
                    consensusApprovals, consensusRejections, reviews, ops >>

ConsensusDeadlock == "Consensus deadlock - human intervention required"

finalized_status_always_merging(result, status) == "merging"

\* finalize_consensus: the status the execution has after the match on the
\* result; SwarmExecution::set_error writes status = 'failed'.
finalized_status(result, status) ==
    CASE result = "Approved" -> "merging"
      [] result = "Rejected" -> "failed"
      [] result = "Deadlock" -> "failed"
      [] OTHER -> status

\* finalize_consensus: update_status or set_error, and the return
FinalizeApply(i) ==
    /\ c[i].pc = "z_apply"
    /\ execStatus' = finalized_status(c[i].result, execStatus)
    /\ errorMessage' = IF c[i].result = "Deadlock" THEN ConsensusDeadlock
                       ELSE errorMessage
    /\ CReturn(i, c[i].result)
    /\ UNCHANGED << swarmVars, decomposeVars, createVars, consensusApprovals, consensusRejections,
                    reviews, ops >>

\* One step of the consensus handler in slot i.
ConsensusStep(i) ==
    \/ ReviewExec(i)
    \/ ReviewReviewers(i)
    \/ ReviewRound(i)
    \/ ReviewCreate(i)
    \/ VoteFind(i)
    \/ VoteWrite(i)
    \/ VoteCount(i)
    \/ EvaluateSummary(i)
    \/ EvaluateRound(i)
    \/ FinalizeApply(i)

\* A consensus request arrives in slot i.
ConsensusRequest(i) ==
    \/ StartReview(i)
    \/ \E review_id \in 1..Len(reviews), vote \in Votes : SubmitVote(i, review_id, vote)
    \/ FinalizeConsensus(i)

\* The row of a one-row plan after a worker ran it and reported success.
RanAndCompleted ==
    LET rows == Materialize(PlanSimple, 0)
    IN  complete(start(set_workspace(assign_agent(rows, 1, 1), 1, 1,
                                     BranchName(rows[1].id)), 1), 1)

\* An execution whose rows are completed and that the tick moved to
\* reviewing; it was created with one of the reviewer counts, and no review
\* was started. The manager was built without an event channel.
InitReview ==
    /\ execStatus = "reviewing"
    /\ errorMessage = ""
    /\ maxParallel = 1
    /\ workers = OneSkilledWorker
    /\ swarmTasks = RanAndCompleted
    /\ taskStatus = << "done" >>
    /\ planOf = PlanEdges(PlanSimple, 0)
    /\ plannerOutput = << >>
    /\ events = EmptyBag
    /\ nextWs = 1
    /\ inflight = {}
    /\ h = [i \in Handlers |-> Idle]
    /\ ops = 0
    /\ reviewerCount \in ReviewerCounts
    /\ consensusThreshold = consensus_threshold(reviewerCount)
    /\ consensusApprovals = 0
    /\ consensusRejections = 0
    /\ reviews = << >>
    /\ reviewers \in ReviewerPools
    /\ config \in Configs
    /\ c = [i \in Handlers |-> CIdle]
    /\ NoDecompose

\* The consensus calls, served one after the other.
NextReview == ConsensusRequest(1) \/ ConsensusStep(1)

SpecReview == InitReview /\ [][NextReview]_vars

\* ------------------------------------------------------ claims on consensus
\* C23: consensus_threshold is 2 * floor((reviewer_count - 1) / 3) + 1 from
\* the creation of the execution on, and no operation changes
\* consensus_threshold or reviewer_count.
C23_ThresholdFixedAtCreation ==
    /\ [](consensusThreshold = 2 * ((reviewerCount - 1) \div 3) + 1)
    /\ [][/\ reviewerCount' = reviewerCount
          /\ consensusThreshold' = consensusThreshold]_vars

\* An execution of four reviewers and threshold three went through a review
\* round, the votes and finalize_consensus.
C23_Witness ==
    /\ reviewerCount = 4
    /\ consensusThreshold = 3
    /\ CountVote("approve") = 3
    /\ execStatus = "merging"

\* The consensus handler in slot i has its evaluation in this step.
Evaluated(i) ==
    /\ c[i].op = "finalize_consensus"
    /\ c[i].pc # "z_apply"
    /\ c'[i].pc = "z_apply"

\* C24: with reviews of the execution in place, evaluate_consensus returns
\* Approved exactly when approvals >= T, and otherwise Rejected exactly when
\* rejections > N - T, for N the reviewer_count and T the consensus_threshold
\* of the execution; in all other cases Pending or Deadlock.
C24_EvaluationByThresholds ==
    [][\A i \in Handlers :
          (Evaluated(i) /\ reviews # << >>)
              => LET result == c'[i].result
                     approved == CountVote("approve") >= consensusThreshold
                     rejected == CountVote("reject") > reviewerCount - consensusThreshold
                 IN  /\ result = "Approved" <=> approved
                     /\ ~approved => (result = "Rejected" <=> rejected)
                     /\ result \in {"Approved", "Rejected", "Pending", "Deadlock"}]_vars

\* All votes of the execution are in and neither threshold is met.
VotesInWithoutDecision ==
    /\ reviews # << >>
    /\ CountVote("pending") = 0
    /\ CountVote("approve") < consensusThreshold
    /\ ~(CountVote("reject") > Len(reviews) - consensusThreshold)

\* C25: when all votes are in, neither threshold is met and the current round
\* has reached max_rounds, finalize_consensus reports Deadlock, sets the
\* error_message of the execution and leaves its status at reviewing.
C25_DeadlockStaysReviewing ==
    [][\A i \in Handlers :
          /\ (c[i].pc = "z_round" /\ VotesInWithoutDecision
                /\ get_latest_round >= config.max_rounds)
                => c'[i].result = "Deadlock"
          /\ (c[i].pc = "z_apply" /\ c[i].result = "Deadlock"
                /\ c'[i].op = "idle" /\ execStatus = "reviewing")
                => /\ c'[i].result = "Deadlock"
                   /\ errorMessage' # ""
                   /\ execStatus' = "reviewing"]_vars

\* ------------------------------------------------- concurrent consensus calls
\* The execution after start_review created the reviews of the first round:
\* three reviewers, the default reviewer count and configuration.
InitVotes ==
    /\ execStatus = "reviewing"
    /\ errorMessage = ""
    /\ maxParallel = 1
    /\ workers = OneSkilledWorker
    /\ swarmTasks = RanAndCompleted
    /\ taskStatus = << "done" >>
    /\ planOf = PlanEdges(PlanSimple, 0)
    /\ plannerOutput = << >>
    /\ events = EmptyBag
    /\ nextWs = 1
    /\ inflight = {}
    /\ h = [i \in Handlers |-> Idle]
    /\ ops = 0
    /\ reviewerCount = DefaultReviewerCount
    /\ consensusThreshold = consensus_threshold(reviewerCount)
    /\ consensusApprovals = 0
    /\ consensusRejections = 0
    /\ reviews = [j \in 1..DefaultReviewerCount |-> NewReview(j, 1)]
    /\ reviewers = DefaultReviewerCount
    /\ config = DefaultConfig
    /\ c = [i \in Handlers |-> CIdle]
    /\ NoDecompose

\* Number of consensus calls in a behaviour of concurrent calls.
MaxVoteOps == 4

\* The consensus calls, each request served by its own task.
NextVotes ==
    \E i \in Handlers :
        \/ ops < MaxVoteOps /\ ConsensusRequest(i)
        \/ ConsensusStep(i)

SpecVotes == InitVotes /\ [][NextVotes]_vars

\* C26: whenever no submit_vote is in progress, consensus_approvals is the
\* number of reviews of the execution whose vote is approve and
\* consensus_rejections the number whose vote is reject, also after
\* submit_vote calls that ran concurrently.
C26_CountersMatchReviews ==
    (\A i \in Handlers : c[i].op # "submit_vote")
        => /\ consensusApprovals = CountVote("approve")
           /\ consensusRejections = CountVote("reject")

\* The step is one of the consensus handler in slot i.
StepOf(i) == c'[i] # c[i]

CountersUnchanged ==
    /\ consensusApprovals' = consensusApprovals
    /\ consensusRejections' = consensusRejections

\* C27: submit_vote on a review whose vote is not pending fails with
\* ReviewAlreadySubmitted and leaves the vote of the review and the two
\* counters of the execution unchanged; an abstain vote on a pending review
\* is written to the review and changes neither counter.
C27_AlreadySubmittedAndAbstain ==
    [][\A i \in Handlers :
          /\ (StepOf(i) /\ c'[i].op = "submit_vote" /\ c[i].op = "idle")
                => reviews' = reviews /\ CountersUnchanged
          /\ (StepOf(i) /\ c[i].pc = "v_find"
                /\ reviews[c[i].review].vote # "pending")
                => /\ c'[i].op = "idle"
                   /\ c'[i].result = "ReviewAlreadySubmitted"
                   /\ reviews' = reviews
                   /\ CountersUnchanged
          /\ (StepOf(i) /\ c[i].op = "submit_vote" /\ c[i].vote = "abstain")
                => CountersUnchanged
          /\ (StepOf(i) /\ c[i].pc = "v_write" /\ c[i].vote = "abstain")
                => /\ reviews'[c[i].review].vote = "abstain"
                   /\ c'[i].op = "idle"
                   /\ c'[i].result = "Ok"]_vars

\* An abstention was written, no counter moved, and a later vote for the
\* same review was refused.
C27_Witness ==
    /\ c[1].op = "idle"
    /\ c[1].result = "ReviewAlreadySubmitted"
    /\ CountVote("abstain") = 1
    /\ CountVote("pending") = Len(reviews) - 1
    /\ consensusApprovals = 0
    /\ consensusRejections = 0

\* The number of reviews of the round whose vote is v.
RoundVotes(round, v) ==
    Cardinality({j \in 1..Len(reviews) : reviews[j].round = round /\ reviews[j].vote = v})

\* C28: for every round start_review has created, the reviews of the round
\* satisfy approvals + rejections + abstentions + pending = N, the
\* reviewer_count of the execution.
C28_RoundSumIsReviewerCount ==
    (\A i \in Handlers : c[i].op # "start_review")
        => \A round \in 1..get_latest_round :
              RoundVotes(round, "approve") + RoundVotes(round, "reject")
                + RoundVotes(round, "abstain") + RoundVotes(round, "pending")
              = reviewerCount

\* The handler in slot i applies the evaluation of finalize_consensus.
Finalized(i) == StepOf(i) /\ c[i].pc = "z_apply"

\* C29: finalize_consensus moves the execution to merging when the
\* evaluation is Approved, to failed when it is Rejected, and changes no
\* field of the execution when it is Pending.
C29_FinalizeAppliesDecision ==
    [][\A i \in Handlers :
          /\ (Finalized(i) /\ c[i].result = "Approved") => execStatus' = "merging"
          /\ (Finalized(i) /\ c[i].result = "Rejected") => execStatus' = "failed"
          /\ (StepOf(i) /\ c[i].op = "finalize_consensus" /\ c'[i].result = "Pending")
                => /\ execStatus' = execStatus
                   /\ errorMessage' = errorMessage
                   /\ CountersUnchanged
                   /\ UNCHANGED << reviewerCount, consensusThreshold, plannerOutput >>
          /\ Finalized(i) => c'[i].op = "idle" /\ c'[i].result = c[i].result]_vars

\* finalize_consensus found the three reviewers' rejections and returned
\* Rejected; the execution is failed.
C29_Witness ==
    /\ c[1].op = "idle"
    /\ c[1].result = "Rejected"
    /\ CountVote("reject") = 3
    /\ reviewerCount = 3
    /\ execStatus = "failed"

\* C30: an execution whose status is failed carries a non-null
\* error_message, whether it failed through the failure of the majority of
\* its tasks or through a consensus rejection in finalize_consensus.
C30_FailedCarriesErrorMessage ==
    execStatus = "failed" => errorMessage # ""

\* ------------------------------------------------------------ review rounds
\* Number of active reviewer profiles when two rounds of the default
\* reviewer count can be staffed with different reviewers.
TwoRoundPool == 6

\* An execution in reviewing of the default reviewer count, with twice as
\* many active reviewers, before any review was started.
InitRounds ==
    /\ execStatus = "reviewing"
    /\ errorMessage = ""
    /\ maxParallel = 1
    /\ workers = OneSkilledWorker
    /\ swarmTasks = RanAndCompleted
    /\ taskStatus = << "done" >>
    /\ planOf = PlanEdges(PlanSimple, 0)
    /\ plannerOutput = << >>
    /\ events = EmptyBag
    /\ nextWs = 1
    /\ inflight = {}
    /\ h = [i \in Handlers |-> Idle]
    /\ ops = 0
    /\ reviewerCount = DefaultReviewerCount
    /\ consensusThreshold = consensus_threshold(reviewerCount)
    /\ consensusApprovals = 0
    /\ consensusRejections = 0
    /\ reviews = << >>
    /\ reviewers = TwoRoundPool
    /\ config = DefaultConfig
    /\ c = [i \in Handlers |-> CIdle]
    /\ NoDecompose

SpecRounds == InitRounds /\ [][NextReview]_vars

\* The rows of a round, and the reviewers of a set of rows. Reviewer
\* profiles are numbered in the order of find_reviewers (priority DESC).
RoundRows(round) == {j \in 1..Len(reviews) : reviews[j].round = round}

ReviewersOf(rows) == {reviews[j].reviewer_profile_id : j \in rows}

RoundSize == IF reviewerCount < reviewers THEN reviewerCount ELSE reviewers

\* C31: each successful start_review creates round last_round + 1 with
\* min(N, |pool|) pending reviews for pairwise distinct reviewers taken in
\* descending priority, and the reviewers are ones not used in earlier
\* rounds of the execution whenever enough unused active reviewers exist.
C31_RoundsUseFreshReviewers ==
    /\ []((\A i \in Handlers : c[i].op # "start_review")
            => \A round \in 1..get_latest_round :
                  LET rows == RoundRows(round)
                      earlier == ReviewersOf({j \in 1..Len(reviews) :
                                                 reviews[j].round < round})
                  IN  /\ Cardinality(rows) = RoundSize
                      /\ Cardinality(ReviewersOf(rows)) = RoundSize
                      /\ \A j, k \in rows :
                            j < k => reviews[j].reviewer_profile_id
                                        < reviews[k].reviewer_profile_id
                      /\ reviewers - Cardinality(earlier) >= RoundSize
                            => ReviewersOf(rows) \cap earlier = {})
    /\ [][\A i \in Handlers :
             (StepOf(i) /\ c[i].pc = "s_create")
                => /\ Len(reviews') = Len(reviews) + 1
                   /\ reviews'[Len(reviews')].vote = "pending"
                   /\ reviews'[Len(reviews')].round = get_latest_round + 1
                         \/ reviews'[Len(reviews')].round = get_latest_round]_vars

\* ------------------------------------------------ concurrent start_review
\* Number of start_review calls in a behaviour.
MaxStartOps == 3

\* start_review requests, each served by its own task.
NextStarts ==
    \E i \in Handlers :
        \/ ops < MaxStartOps /\ StartReview(i)
        \/ ReviewExec(i)
        \/ ReviewReviewers(i)
        \/ ReviewRound(i)
        \/ ReviewCreate(i)

SpecStarts == InitReview /\ [][NextStarts]_vars

LifecycleRank(status) ==
    CASE status = "planning" -> 1
      [] status = "planned" -> 2
      [] status = "executing" -> 3
      [] status = "reviewing" -> 4
      [] OTHER -> 5

\* The step is one of generate_plan or execute_plan (no manager or consensus
\* handler moves), or the last one of finalize_consensus.
PlannerOrFinalizeStep ==
    \/ h' = h /\ c' = c /\ ops' = ops
    \/ \E i \in Handlers : Finalized(i)

\* C33: generate_plan, execute_plan and finalize_consensus never move an
\* execution backwards in the lifecycle or out of merging, failed or
\* cancelled, whatever status they are invoked in.
C33_NeverBackwards ==
    [][PlannerOrFinalizeStep
          => /\ LifecycleRank(execStatus') >= LifecycleRank(execStatus)
             /\ execStatus \in {"merging", "failed", "cancelled"}
                   => execStatus' = execStatus]_vars

\* ------------------------------------------------------------ invalid plans
\* Plans a caller of execute_plan can hand in that are not forward-only: the
\* empty plan, a subtask depending on itself, and a subtask depending on a
\* later one.
PlanEmpty == << >>

PlanSelfReference ==
    << PlannedSubtask({}, {}), PlannedSubtask({}, {1}) >>

PlanForwardReference ==
    << PlannedSubtask({}, {1}), PlannedSubtask({}, {}) >>

InvalidPlans == {PlanEmpty, PlanSelfReference, PlanForwardReference}

\* The planner is called with any plan, then the manager serves requests.
NextAnyPlan ==
    \/ /\ h[1].op = "idle"
       /\ \E plan \in InvalidPlans : ExecutePlan(plan)
    \/ NextPlan

SpecAnyPlan == InitPlan /\ [][NextAnyPlan]_vars

\* C34: execute_plan with a plan that is empty or has a self-reference or a
\* forward reference creates no SwarmTask and does not move the execution
\* to executing, so that the depends_on relation over the rows of the
\* execution has no self-loop and no edge to a later row.
C34_InvalidPlanRejected ==
    /\ [](\A k \in Rows :
             /\ \A d \in planOf[k] : d < k
             /\ swarmTasks[k].task_id \notin swarmTasks[k].depends_on
             /\ swarmTasks[k].id \notin swarmTasks[k].depends_on)
    /\ [][(/\ h' = h /\ c' = c /\ ops' = ops
           /\ execStatus # "executing"
           /\ execStatus' = "executing")
             => Len(swarmTasks') > Len(swarmTasks)]_vars

\* ---------------------------------------------- PlannerService: decomposition
\* estimate_title_complexity: keywords and complexity_keywords, in order
ActionKeywords ==
    << "refactor", "implement", "build", "create", "design", "integrate",
       "migrate", "optimize", "architecture" >>

ScopeKeywords ==
    << "system", "framework", "platform", "engine", "complete", "full",
       "entire", "comprehensive", "end-to-end" >>

\* Titles are sequences of words; the words titles are made of here, those
\* of the titles of test_title_complexity among them.
Words ==
    {"Fix", "bug", "Implement", "new", "feature", "Build", "complete",
     "authentication", "system", "System", "rebuild", "FULL"}

\* Largest number of words of a title.
MaxTitleWords == 3

RECURSIVE SeqsUpTo(_, _)
SeqsUpTo(S, n) ==
    IF n = 0 THEN {<< >>}
    ELSE LET shorter == SeqsUpTo(S, n - 1)
         IN  shorter \cup {Append(t, w) : t \in shorter, w \in S}

\* "Fix bug", "Implement new feature", "Build complete authentication system"
TestTitles ==
    {<< "Fix", "bug" >>,
     << "Implement", "new", "feature" >>,
     << "Build", "complete", "authentication", "system" >>}

Titles == SeqsUpTo(Words, MaxTitleWords) \cup TestTitles

\* str::to_lowercase, word by word
to_lowercase(title) ==
    [k \in 1..Len(title) |->
        CASE title[k] = "Fix" -> "fix"
          [] title[k] = "Implement" -> "implement"
          [] title[k] = "Build" -> "build"
          [] title[k] = "System" -> "system"
          [] title[k] = "FULL" -> "full"
          [] OTHER -> title[k]]

\* str::contains: kw is a substring of the title, that is, of one of its
\* words (no keyword has a blank); of the words here only "rebuild" holds a
\* keyword it is not equal to.
contains(title, kw) ==
    \E k \in 1..Len(title) :
        \/ title[k] = kw
        \/ title[k] = "rebuild" /\ kw = "build"

\* for kw in list { if lower_title.contains(kw) { score += weight } }
RECURSIVE ScoreKeywords(_, _, _, _, _)
ScoreKeywords(lower_title, list, k, weight, score) ==
    IF k > Len(list) THEN score
    ELSE ScoreKeywords(lower_title, list, k + 1, weight,
                       IF contains(lower_title, list[k]) THEN score + weight
                       ELSE score)

Min(a, b) == IF a < b THEN a ELSE b

estimate_title_complexity_unclamped(title) ==
    LET lower_title == to_lowercase(title)
    IN  ScoreKeywords(lower_title, ScopeKeywords, 1, 2,
                      ScoreKeywords(lower_title, ActionKeywords, 1, 1, 1))

\* PlannerService::estimate_title_complexity
estimate_title_complexity(title) ==
    LET lower_title == to_lowercase(title)
        score == ScoreKeywords(lower_title, ScopeKeywords, 1, 2,
                               ScoreKeywords(lower_title, ActionKeywords, 1, 1, 1))
    IN  Min(score, 5)

\* PlannerService::analyze_complexity: the match on
\* (description_len, title_complexity), first arm that fits
analyze_complexity(task) ==
    LET description_len == task.description_len
        title_complexity == estimate_title_complexity(task.title)
    IN  CASE description_len <= 50 /\ title_complexity = 1 -> "Trivial"
          [] description_len <= 200 /\ title_complexity \in 1..2
                /\ ~(description_len <= 50 /\ title_complexity = 1) -> "Simple"
          [] description_len <= 500 /\ title_complexity \in 1..3
                /\ ~(description_len <= 200 /\ title_complexity \in 1..2) -> "Moderate"
          [] description_len <= 1000
                /\ ~(description_len <= 500 /\ title_complexity \in 1..3) -> "Complex"
          [] OTHER -> "Epic"

\* PlannerService::generate_subtasks
generate_subtasks(complexity) ==
    CASE complexity \in {"Trivial", "Simple"} -> PlanSimple
      [] complexity = "Moderate" -> PlanModerate
      [] OTHER -> PlanComplex

\* subtasks.len() >= self.config.swarm_threshold as usize: a negative i32
\* becomes a usize above every length
AtLeastAsUsize(len, threshold) == threshold >= 0 /\ len >= threshold

\* PlannerService::decompose_task
decompose_task(task, cfg) ==
    LET complexity == analyze_complexity(task)
        subtasks == generate_subtasks(complexity)
    IN  [complexity |-> complexity,
         requires_swarm |-> AtLeastAsUsize(Len(subtasks), cfg.swarm_threshold),
         subtasks |-> subtasks]

\* The step of generate_plan that decomposes the epic.
DecomposeTask ==
    /\ decomposed = NoPlan
    /\ decomposed' = decompose_task(epicTask, plannerConfig)
    /\ UNCHANGED << execStatus, errorMessage, maxParallel, workers, swarmTasks,
                    taskStatus, plannerOutput, planOf, events, nextWs, inflight, h,
                    ops, consensusVars, epicTask, plannerConfig, titleScore >>

\* A call of estimate_title_complexity for the title of the epic.
EstimateTitle ==
    /\ titleScore = 0
    /\ titleScore' = estimate_title_complexity(epicTask.title)
    /\ UNCHANGED << execStatus, errorMessage, maxParallel, workers, swarmTasks,
                    taskStatus, plannerOutput, planOf, events, nextWs, inflight, h,
                    ops, consensusVars, epicTask, plannerConfig, decomposed >>

\* Description lengths around the bounds of analyze_complexity, and the
\* planner configurations.
DescriptionLens == {0, 50, 51, 200, 201, 500, 501, 1000, 1001}

PlannerConfigs ==
    [swarm_threshold : {1, 2, 7}, max_subtasks : {3, 6, 10}]

DecomposeTitles ==
    TestTitles \cup {<< "Build", "System" >>, << "rebuild", "Implement" >>}

\* An execution in planning whose epic has the given title and description.
InitEpic(titles, lens, configs) ==
    /\ execStatus = "planning"
    /\ errorMessage = ""
    /\ maxParallel = 1
    /\ workers = OneSkilledWorker
    /\ swarmTasks = << >>
    /\ taskStatus = << >>
    /\ planOf = << >>
    /\ plannerOutput = << >>
    /\ events = EmptyBag
    /\ nextWs = 0
    /\ inflight = {}
    /\ h = [i \in Handlers |-> Idle]
    /\ ops = 0
    /\ NoConsensus
    /\ epicTask \in [title : titles, description_len : lens]
    /\ plannerConfig \in configs
    /\ titleScore = 0
    /\ decomposed = NoPlan

InitDecompose == InitEpic(DecomposeTitles, DescriptionLens, PlannerConfigs)

SpecDecompose == InitDecompose /\ [][DecomposeTask]_vars

InitTitles == InitEpic(Titles, {0}, {DefaultPlannerConfig})

SpecTitles == InitTitles /\ [][EstimateTitle]_vars

\* C35: the plan generate_plan produces for an epic under a PlannerConfig
\* has forward-only depends_on, between 1 and max_subtasks subtasks, and
\* requires_swarm true exactly when it has at least swarm_threshold subtasks.
C35_PlanWithinConfig ==
    decomposed # NoPlan
        => LET subtasks == decomposed.subtasks
           IN  /\ \A k \in 1..Len(subtasks) :
                     \A d \in subtasks[k].depends_on : d >= 0 /\ d < k - 1
               /\ 1 <= Len(subtasks)
               /\ Len(subtasks) <= plannerConfig.max_subtasks
               /\ decomposed.requires_swarm
                     <=> Len(subtasks) >= plannerConfig.swarm_threshold

\* The tick in slot i is inside start_task, past assign_agent.
Starting(i) == h[i].pc \in {"t_ws", "t_run", "t_task"}

\* C36: a pending SwarmTask is never started by two ticks at once, and the
\* workspace_id of a row is never overwritten while the row is assigned or
\* running, also when two ticks of the execution interleave. The workspace
\* is that of the attempt: rows that were retried are left to C11.
C36_OneWorkspacePerDispatch ==
    /\ [](\A i, j \in Handlers :
             (i # j /\ Starting(i) /\ Starting(j))
                => Head(h[i].todo) # Head(h[j].todo))
    /\ [][\A k \in Rows :
             (/\ Status(k) \in {"assigned", "running"}
              /\ swarmTasks[k].workspace_id # 0
              /\ swarmTasks[k].retry_count = 0)
                => swarmTasks'[k].workspace_id = swarmTasks[k].workspace_id]_vars

\* C37: estimate_title_complexity(title) is min(5, 1 + a + 2*c), a the number
\* of action keywords and c the number of scope keywords contained in the
\* lower-cased title; so it is in 1..5, at most 2 with no scope keyword and
\* at most one action keyword, and at least 4 with an action keyword and a
\* scope keyword.
C37_TitleComplexityFormula ==
    titleScore # 0 =>
        LET lower == to_lowercase(epicTask.title)
            actions == Cardinality({k \in 1..Len(ActionKeywords) :
                                 contains(lower, ActionKeywords[k])})
            scopes == Cardinality({k \in 1..Len(ScopeKeywords) :
                                 contains(lower, ScopeKeywords[k])})
            sum == 1 + actions + 2 * scopes
        IN  /\ Len(ActionKeywords) = 9
            /\ Len(ScopeKeywords) = 9
            /\ titleScore = IF sum > 5 THEN 5 ELSE sum
            /\ titleScore \in 1..5
            /\ (scopes = 0 /\ actions <= 1) => titleScore <= 2
            /\ (actions >= 1 /\ scopes >= 1) => titleScore >= 4

\* C37 witness: "Build complete authentication system" was scored: one
\* action keyword and two scope keywords, 1 + 1 + 4 cut to 5.
C37_Witness ==
    /\ epicTask.title = << "Build", "complete", "authentication", "system" >>
    /\ titleScore = 5

\* C38: consensus is rejected only on Reject votes: while the execution has
\* reviews and none of them has the vote reject, evaluate_consensus does not
\* return Rejected and finalize_consensus does not move the execution to
\* failed for a rejection (a Deadlock is not a rejection), also when there
\* are fewer reviews than the consensus_threshold.
C38_RejectedOnlyOnRejectVotes ==
    [][\A i \in Handlers :
          (reviews # << >> /\ CountVote("reject") = 0)
              => /\ Evaluated(i) => c'[i].result # "Rejected"
                 /\ (Finalized(i) /\ c[i].result # "Deadlock" /\ execStatus # "failed")
                       => execStatus' # "failed"]_vars

\* C39: an execution is reviewing only when execute_plan has created at
\* least one SwarmTask of it, and ConsensusRequired is sent only then: a
\* resume of an execution that is planned and has no SwarmTask does not move
\* it to reviewing.
C39_ReviewingNeedsSubTasks ==
    /\ [](execStatus = "reviewing" => Rows # {})
    /\ [][Sent(events', "ConsensusRequired") # Sent(events, "ConsensusRequired")
             => Rows # {}]_vars

\* ------------------------------------------------- start_task returning Err
\* start_task: a call after assign_agent returns Err (the lookups of the
\* execution and of the child Task, Workspace::create with its map_err, or
\* the set_workspace and start writes) and `?` leaves start_task; the tick
\* logs the error and goes on with the next task. No statement undoes
\* assign_agent.
StartTaskErr(i) ==
    /\ h[i].pc \in {"t_ws", "t_run"}
    /\ h' = NextStart(i)
    /\ UNCHANGED << execStatus, errorMessage, maxParallel, workers, consensusVars,
                    decomposeVars, swarmTasks, taskStatus, planVars, events, nextWs,
                    inflight, ops >>

NextStartErr ==
    \/ NextLive
    \/ StartTaskErr(1)

\* As SpecLive, with calls of the store and of the workspace provider that
\* may fail in start_task.
SpecStartErr ==
    /\ InitLive
    /\ [][NextStartErr]_vars
    /\ WF_vars(LiveStep(1))
    /\ SF_vars(Scheduled)
    /\ SF_vars(Reported)

\* C40: no SwarmTask stays assigned forever, also when start_task failed
\* after assign_agent: the row is eventually pending, running or terminal
\* again.
C40_AssignedIsLeft ==
    \A k \in 1..MaxSubtasks :
        (k \in Rows /\ Status(k) = "assigned")
            ~> (k \in Rows /\ Status(k) # "assigned")

====
